---- MODULE Spec2Model ----
(***************************************************************************)
(* Model of tower-http's follow_redirect middleware:                       *)
(*   follow_redirect/mod.rs            FollowRedirect, ResponseFuture,     *)
(*                                     BodyRepr, clone_body, resolve_uri   *)
(*   follow_redirect/policy/select.rs  Select                              *)
(* The Policy trait and the policies Action, Result, Limited and Standard,  *)
(* whose source is outside these two files, follow the specification's     *)
(* sections 4.1 to 4.3.                                                    *)
(***************************************************************************)
EXTENDS Naturals, Sequences, FiniteSets

\* ------------------------------------------------------------------ bounds

\* The unit test of Select applies redirect to one policy MaxProbes times.
MaxProbes == 2
\* The requests of a call and the calls of a policy are counted up to
\* MaxDispatch; a count that has reached it stays there.
MaxDispatch == 3
\* The countdown server of the tests is asked for /0 .. /MaxN.
MaxN == 2
\* Limited::new(n) is explored for n in 0 .. MaxLimit.
MaxLimit == 2

\* A count, one more than n, that stops at MaxDispatch.
Counted(n) == IF n < MaxDispatch THEN n + 1 ELSE n

\* ------------------------------------------------------------------ data

Calls == {1, 2}

Methods == {"GET", "POST", "HEAD"}

\* A request body is its content: 0 is the empty body, B::default(), whose
\* size_hint().exact() is Some(0); any other value is a non-empty body.
Bodies == {0, 1}

Versions == {"HTTP/1.1"}

\* http::Uri.  host "" is a URI in origin form (no scheme, no authority);
\* path <<1, 2>> is "/1/2".
MkUri(h, p) == [host |-> h, path |-> p]

\* The Location header of a response.
\*   none     no Location header
\*   invalid  a value that is not UTF-8 or not a URI reference
\*   abs      "http://host/path"
\*   abspath  "/path"
\*   rel      "seg/seg" (a relative-path reference; <<>> is the empty reference)
MkLoc(k, h, p) == [kind |-> k, host |-> h, path |-> p]
NoLocation == MkLoc("none", "", <<>>)
BadLocation == MkLoc("invalid", "", <<>>)

RedirectStatus == {301, 302, 303, 307, 308}

MkResponse(s, l, b) == [status |-> s, location |-> l, body |-> b]
NoResponse == MkResponse(0, NoLocation, 0)

\* Option<T>
None == [some |-> FALSE, val |-> 0]
Some(v) == [some |-> TRUE, val |-> v]

\* Result<Response, Error>, the output of the ResponseFuture.
Ok(res) == [tag |-> "Ok", res |-> res, error |-> ""]
Err(e) == [tag |-> "Err", res |-> NoResponse, error |-> e]
NoOutput == [tag |-> "Pending", res |-> NoResponse, error |-> ""]

\* ------------------------------------------------------------------ policies

\* A leaf policy, wrapped like the tests' Taint so that `used` counts the
\* calls of its redirect method.
\*   follow   Action::Follow        always Ok(Follow)
\*   stop     Action::Stop          always Ok(Stop)
\*   err      Result::Err(e)        always Err(e)
\*   limited  Limited               `remaining` hops left
\*   custom   a user policy that follows, clones bodies and adds a header
\*   standard Standard              always Ok(Follow)
Leaf(k, n, e) == [kind |-> k, remaining |-> n, error |-> e, used |-> 0]
Follow == Leaf("follow", 0, "")
Stop == Leaf("stop", 0, "")
Fail(e) == Leaf("err", 0, e)
Limited(n) == Leaf("limited", n, "")
Custom == Leaf("custom", 0, "")
Standard == Leaf("standard", 0, "")

\* Result<Action, E> of Policy::redirect, with the policy's new state.
Decision(p, t, a, e) == [policy |-> p, tag |-> t, action |-> a, error |-> e]

\* Limited::redirect
LimitedRedirect(p) ==
    IF p.remaining > 0
    THEN Decision([p EXCEPT !.remaining = @ - 1, !.used = Counted(@)], "Ok", "Follow", "")
    ELSE Decision([p EXCEPT !.used = Counted(@)], "Ok", "Stop", "")

\* Policy::redirect of the leaf policies
LeafRedirect(p) ==
    CASE p.kind = "limited" -> LimitedRedirect(p)
      [] p.kind = "stop"    -> Decision([p EXCEPT !.used = Counted(@)], "Ok", "Stop", "")
      [] p.kind = "err"     -> Decision([p EXCEPT !.used = Counted(@)], "Err", "", p.error)
      [] OTHER              -> Decision([p EXCEPT !.used = Counted(@)], "Ok", "Follow", "")

\* select(a, b)
Select(a, b) == [kind |-> "select", a |-> a, b |-> b]

RECURSIVE Redirect(_, _)

\* Faulty variant of Select::redirect: an error of the first policy is
\* returned instead of falling back to the second.
SelectRedirectPropagate(p, attempt) ==
    LET ra == Redirect(p.a, attempt)
        rb == Redirect(p.b, attempt)
    IN  IF ra.tag = "Ok" /\ ra.action = "Stop"
        THEN Decision([p EXCEPT !.a = ra.policy, !.b = rb.policy],
                      rb.tag, rb.action, rb.error)
        ELSE Decision([p EXCEPT !.a = ra.policy], ra.tag, ra.action, ra.error)

\* Select::redirect
SelectRedirect(p, attempt) ==
    LET ra == Redirect(p.a, attempt)
        rb == Redirect(p.b, attempt)
    IN  IF ra.tag = "Err" \/ ra.action = "Stop"
        THEN Decision([p EXCEPT !.a = ra.policy, !.b = rb.policy],
                      rb.tag, rb.action, rb.error)
        ELSE Decision([p EXCEPT !.a = ra.policy], ra.tag, ra.action, ra.error)

\* Policy::redirect.  No modelled policy reads the attempt.
Redirect(p, attempt) ==
    IF p.kind = "select" THEN SelectRedirect(p, attempt) ELSE LeafRedirect(p)

\* Policy::on_request: the custom policy appends one header value.
RECURSIVE OnRequest(_, _)
OnRequest(p, req) ==
    CASE p.kind = "select" -> OnRequest(p.b, OnRequest(p.a, req))
      [] p.kind = "custom" -> [req EXCEPT !.headers = @ + 1]
      [] OTHER             -> req

\* Policy::clone_body: only the custom policy can clone.
RECURSIVE PolicyCloneBody(_, _)

\* Faulty variant of Select::clone_body: the second policy is asked before it
\* is known whether the first one produced a clone (`or` in place of `or_else`).
SelectCloneBodyEager(p, body) ==
    LET a == PolicyCloneBody(p.a, body)
        b == PolicyCloneBody(p.b, body)
    IN  [out |-> IF a.some THEN a ELSE b, asked |-> <<"a", "b">>]

\* Select::clone_body: the clone returned, and which of the two policies had
\* their clone_body called, in order.
SelectCloneBody(p, body) ==
    LET a == PolicyCloneBody(p.a, body)
    IN  IF a.some
        THEN [out |-> a, asked |-> <<"a">>]
        ELSE [out |-> PolicyCloneBody(p.b, body), asked |-> <<"a", "b">>]

PolicyCloneBody(p, body) ==
    CASE p.kind = "select" -> SelectCloneBody(p, body).out
      [] p.kind = "custom" -> Some(body)
      [] OTHER             -> None

\* ------------------------------------------------------------------ BodyRepr

BodySome(b) == [tag |-> "Some", val |-> b]
BodyEmpty == [tag |-> "Empty", val |-> 0]
BodyNone == [tag |-> "None", val |-> 0]

\* Faulty variant of BodyRepr::take: an exhausted body is replaced by a
\* default one.
TakeDefault(repr) ==
    CASE repr.tag = "Some"  -> [repr |-> BodyNone, out |-> Some(repr.val)]
      [] OTHER              -> [repr |-> repr, out |-> Some(0)]

\* Faulty variant of BodyRepr::take: the known-empty representation is not put
\* back after the body was handed out.
TakeForget(repr) ==
    CASE repr.tag = "Some"  -> [repr |-> BodyNone, out |-> Some(repr.val)]
      [] repr.tag = "Empty" -> [repr |-> BodyNone, out |-> Some(0)]
      [] OTHER              -> [repr |-> BodyNone, out |-> None]

\* BodyRepr::take: the new representation and the body handed out.
Take(repr) ==
    CASE repr.tag = "Some"  -> [repr |-> BodyNone, out |-> Some(repr.val)]
      [] repr.tag = "Empty" -> [repr |-> BodyEmpty, out |-> Some(0)]
      [] OTHER              -> [repr |-> BodyNone, out |-> None]

\* Faulty variant of clone_body: the policy is asked for every body, also for
\* one of size zero.
CloneBodyAskPolicy(p, body) == PolicyCloneBody(p, body)

\* clone_body
CloneBody(p, body) ==
    IF body = 0 THEN Some(0) ELSE PolicyCloneBody(p, body)

\* BodyRepr::try_clone_from
TryCloneFrom(repr, body, p) ==
    IF repr.tag = "None" /\ CloneBody(p, body).some
    THEN BodySome(CloneBody(p, body).val)
    ELSE repr

\* ------------------------------------------------------------------ URIs

\* resolve_uri: RFC 3986 reference resolution of `relative` against `base`,
\* for references without dot segments, query or fragment.
ResolveUri(relative, base) ==
    CASE relative.kind = "invalid" -> None
      [] base.host = ""            -> None
      [] relative.kind = "abs"     -> Some(MkUri(relative.host, relative.path))
      [] relative.kind = "abspath" -> Some(MkUri(base.host, relative.path))
      [] relative.path = <<>>      -> Some(base)
      [] OTHER ->
            Some(MkUri(base.host,
                       (IF base.path = <<>> THEN <<>>
                        ELSE SubSeq(base.path, 1, Len(base.path) - 1))
                       \o relative.path))

\* ------------------------------------------------------------------ requests

MkRequest(m, u, v, h, b) ==
    [method |-> m, uri |-> u, version |-> v, headers |-> h, body |-> b]
NoUri == MkUri("", <<>>)
NoRequest == MkRequest("", NoUri, "", 0, 0)

\* Attempt { status, location, previous }
MkAttempt(s, l, p) == [status |-> s, location |-> l, previous |-> p]
NoAttempt == MkAttempt(0, NoUri, NoUri)

\* tests::handle, the countdown server: GET /n redirects to /(n-1) unless n = 0,
\* and answers with n as the response body.
Handle(req) ==
    LET n == req.uri.path[1]
    IN  IF n > 0
        THEN MkResponse(301, MkLoc("abspath", "", <<n - 1>>), n)
        ELSE MkResponse(200, NoLocation, n)

\* ------------------------------------------------------------------ the engine

\* A handle to the wrapped service: whether poll_ready has succeeded on it
\* since it was cloned or last called.
Service(r) == [ready |-> r]

\* Either<S::Future, Oneshot<S, Request>>: the attempt in flight.
\*   Left            the future of the first request, already called
\*   Right/NotReady  a Oneshot waiting for its service handle to be ready
\*   Right/Called    a Oneshot whose request was handed to the service
MkFuture(k, st, req) == [kind |-> k, state |-> st, req |-> req]

\* struct ResponseFuture
MkResponseFuture(fut, svc, pol, m, u, v, h, b) ==
    [future |-> fut, service |-> svc, policy |-> pol, method |-> m, uri |-> u,
     version |-> v, headers |-> h, body |-> b]
NoResponseFuture ==
    MkResponseFuture(MkFuture("", "", NoRequest), Service(FALSE), Stop, "", NoUri,
                     "", 0, BodyNone)

\* Faulty variant of the status match: every 3xx status of the service is
\* treated as a redirection.
IsRedirectionAny3xx(status) == status \in {301, 302, 303, 304, 307, 308}

\* ResponseFuture::poll, the match on res.status(): which statuses are redirections.
IsRedirection(status) == status \in {301, 302, 303, 307, 308}

\* Faulty variant of the rewrite: 301/302 turn POST into GET but keep the body.
RewriteKeepBody(method, body, status) ==
    CASE status \in {301, 302} ->
            [method |-> IF method = "POST" THEN "GET" ELSE method, body |-> body]
      [] status = 303 ->
            [method |-> IF method # "HEAD" THEN "GET" ELSE method, body |-> BodyEmpty]
      [] OTHER -> [method |-> method, body |-> body]

\* Faulty variant of the rewrite: 303 turns every method, HEAD too, into GET.
RewriteAlwaysGet(method, body, status) ==
    CASE status \in {301, 302} ->
            IF method = "POST"
            THEN [method |-> "GET", body |-> BodyEmpty]
            ELSE [method |-> method, body |-> body]
      [] status = 303 -> [method |-> "GET", body |-> BodyEmpty]
      [] OTHER -> [method |-> method, body |-> body]

\* ResponseFuture::poll, the match on res.status(): the method and the stored
\* body after the rewrite of a redirection status.
Rewrite(method, body, status) ==
    CASE status \in {301, 302} ->
            IF method = "POST"
            THEN [method |-> "GET", body |-> BodyEmpty]
            ELSE [method |-> method, body |-> body]
      [] status = 303 ->
            [method |-> IF method # "HEAD" THEN "GET" ELSE method, body |-> BodyEmpty]
      [] OTHER -> [method |-> method, body |-> body]

\* Faulty variant of the Location lookup: a missing header is read as the
\* empty reference.
LocationOrBase(res, uri) ==
    IF res.location.kind = "none" THEN Some(uri) ELSE ResolveUri(res.location, uri)

\* Faulty variant of the Location lookup with a loop detection: a redirect
\* to the URI it came from is not followed.
LocationDetectLoop(res, uri) ==
    CASE res.location.kind = "none" -> None
      [] ResolveUri(res.location, uri) = Some(uri) -> None
      [] OTHER -> ResolveUri(res.location, uri)

\* ResponseFuture::poll: the Location header resolved against this.uri.
Location(res, uri) ==
    IF res.location.kind = "none" THEN None ELSE ResolveUri(res.location, uri)

\* Faulty variant of the request construction: the request is sent to the
\* URI of the future instead of the redirect location.
NextRequestSameUri(f, location, method, body, policy) ==
    OnRequest(policy, MkRequest(method, f.uri, f.version, f.headers, body))

\* Faulty variant of the request construction: the headers are taken from the
\* request sent before, not from the snapshot of the future.
NextRequestCumulative(f, location, method, body, policy) ==
    OnRequest(policy, MkRequest(method, location, f.version, f.future.req.headers, body))

\* ResponseFuture::poll: the request built after Action::Follow.
NextRequest(f, location, method, body, policy) ==
    OnRequest(policy, MkRequest(method, location, f.version, f.headers, body))

\* Faulty variant of the decision handling: an error of the policy ends the
\* call with the response instead of the error.
DecidedSwallow(d, res) ==
    IF d.tag = "Ok" /\ d.action = "Follow" THEN NoOutput ELSE Ok(res)

\* ResponseFuture::poll: what the poll returns once the policy has decided
\* (Pending after Follow).
Decided(d, res) ==
    CASE d.tag = "Err"        -> Err(d.error)
      [] d.action = "Follow"  -> NoOutput
      [] OTHER                -> Ok(res)

\* The outcome of one poll: the future's new fields, the value returned, and
\* the attempt shown to the policy with its decision ("" if it was not asked).
Polled(f, out, attempt, decision) ==
    [rf |-> f, output |-> out, attempt |-> attempt, decision |-> decision]

\* Faulty variant of the poll: the policy decides on a copy of its state, so
\* what it counted is lost when the poll returns.
PollOkForgetful(f, res) ==
    LET rw == Rewrite(f.method, f.body, res.status)
        tk == Take(rw.body)
        f1 == [f EXCEPT !.method = rw.method, !.body = tk.repr]
        loc == Location(res, f.uri)
        attempt == MkAttempt(res.status, loc.val, f.uri)
        d == Redirect(f.policy, attempt)
        f2 == f1
        req == NextRequest(f, loc.val, rw.method, tk.out.val, d.policy)
    IN  CASE ~IsRedirection(res.status) -> Polled(f, Ok(res), NoAttempt, "")
          [] ~tk.out.some -> Polled(f1, Ok(res), NoAttempt, "")
          [] ~loc.some    -> Polled(f1, Ok(res), NoAttempt, "")
          [] d.tag = "Ok" /\ d.action = "Follow" ->
                Polled([f2 EXCEPT
                          !.body = TryCloneFrom(tk.repr, tk.out.val, d.policy),
                          !.future = MkFuture("Right", "NotReady", req)],
                       Decided(d, res), attempt, "Follow")
          [] OTHER ->
                Polled(f2, Decided(d, res), attempt,
                       IF d.tag = "Err" THEN "Err" ELSE d.action)

\* ResponseFuture::poll when the future in flight yields Ok(res).
PollOk(f, res) ==
    LET rw == Rewrite(f.method, f.body, res.status)
        tk == Take(rw.body)
        f1 == [f EXCEPT !.method = rw.method, !.body = tk.repr]
        loc == Location(res, f.uri)
        attempt == MkAttempt(res.status, loc.val, f.uri)
        d == Redirect(f.policy, attempt)
        f2 == [f1 EXCEPT !.policy = d.policy]
        req == NextRequest(f, loc.val, rw.method, tk.out.val, d.policy)
    IN  CASE ~IsRedirection(res.status) -> Polled(f, Ok(res), NoAttempt, "")
          [] ~tk.out.some -> Polled(f1, Ok(res), NoAttempt, "")
          [] ~loc.some    -> Polled(f1, Ok(res), NoAttempt, "")
          [] d.tag = "Ok" /\ d.action = "Follow" ->
                Polled([f2 EXCEPT
                          !.body = TryCloneFrom(tk.repr, tk.out.val, d.policy),
                          !.future = MkFuture("Right", "NotReady", req)],
                       Decided(d, res), attempt, "Follow")
          [] OTHER ->
                Polled(f2, Decided(d, res), attempt,
                       IF d.tag = "Err" THEN "Err" ELSE d.action)

\* ResponseFuture::poll when the future in flight yields Err(e): the `?`.
PollErr(f, e) == Polled(f, Err(e), NoAttempt, "")

\* ------------------------------------------------------------------ inputs

\* Leaf policies a middleware is configured with.
Leaves ==
    {Follow, Stop, Custom, Fail("EA"), Fail("EB")} \cup {Limited(n) : n \in 0..MaxLimit}

\* Policies of the middleware, by the kind of wrapped service.
Policies(srv) ==
    CASE srv = "countdown" -> {Follow, Stop} \cup {Limited(n) : n \in 0..MaxLimit}
      [] srv = "handle" -> {Custom, Limited(1)}
      [] srv = "loop" -> {Standard}
      [] OTHER ->
            {Follow, Custom, Fail("EA")} \cup {Limited(n) : n \in 0..MaxLimit}
            \cup {Select(Limited(1), Fail("EB")), Select(Fail("EA"), Custom)}

\* Requests a caller submits.
Requests(srv) ==
    CASE srv = "countdown" ->
            {MkRequest("GET", MkUri("a", <<n>>), "HTTP/1.1", 0, 0) : n \in 0..MaxN}
      [] srv = "handle" ->
            {MkRequest(m, MkUri("a", <<n>>), "HTTP/1.1", 0, b) :
                m \in Methods, b \in Bodies, n \in 1..MaxN}
      [] OTHER ->
            {MkRequest(m, u, "HTTP/1.1", 0, b) :
                m \in Methods, b \in Bodies, u \in {MkUri("a", <<1>>), MkUri("", <<1>>)}}

\* Calls issued through one middleware: one against the free-form service, two
\* (running concurrently) against the countdown server.
Callers(srv) == IF srv \in {"countdown", "handle"} THEN Calls ELSE {1}

\* Location headers the wrapped service answers with.
Locations ==
    {NoLocation, BadLocation, MkLoc("abs", "b", <<0>>), MkLoc("abspath", "", <<1>>),
     MkLoc("rel", "", <<2>>)}

\* The Location header that names `uri` itself.
SelfLocation(uri) ==
    IF uri.host = "" THEN MkLoc("abspath", "", uri.path) ELSE MkLoc("abs", uri.host, uri.path)

\* Responses of the wrapped service to `req`.  The looping service redirects
\* every URI back to itself.
Responses(srv, req) ==
    CASE srv \in {"countdown", "handle"} -> {Handle(req)}
      [] srv = "loop" -> {MkResponse(st, SelfLocation(req.uri), 0) : st \in RedirectStatus}
      [] OTHER ->
            {MkResponse(200, NoLocation, 0)}
            \cup {MkResponse(st, l, 0) :
                    st \in {301, 302, 303, 304, 307, 308}, l \in Locations}

\* ------------------------------------------------------------------ state

VARIABLES
    server,     \* the wrapped service: "any" answers anything, "countdown" is
                \* tests::handle asked as the tests do, "handle" is tests::handle
                \* asked with any method and body, "loop" redirects every URI
                \* back to itself
    mw,         \* FollowRedirect { inner, policy }
    pc,         \* per call: "idle", "requesting" (ResponseFuture alive), "done"
    rf,         \* per call: its ResponseFuture
    output,     \* per call: what ResponseFuture::poll returned
    exec,       \* per call: how many requests the wrapped service got, the latest,
                \* whether the handle it was sent on had been polled ready, and
                \* how many requests are still unanswered
    submitted,  \* per call: the request the caller passed to call()
    last,       \* per call: the latest poll that processed a result of the service
    decisions,  \* per call: the results of policy.redirect, in order
    probe       \* the Select unit test: policy before, result of redirect; the
                \* latest clone_body asked of the policy

vars == <<server, mw, pc, rf, output, exec, submitted, last, decisions, probe>>

MkLast(req, res, f, n, attempt, decision) ==
    [req |-> req, res |-> res, method |-> f.method, body |-> f.body,
     policy |-> f.policy, uri |-> f.uri, n |-> n, attempt |-> attempt,
     decision |-> decision]
NoLast == MkLast(NoRequest, NoResponse, NoResponseFuture, 0, NoAttempt, "")

\* No clone_body asked of the Select yet.
NoClone == [policy |-> Stop, body |-> 0, out |-> None, asked |-> <<>>]

NoProbe == [before |-> Stop, result |-> Decision(Stop, "", "", ""), clone |-> NoClone]

Init ==
    /\ server \in {"any", "countdown", "handle"}
    /\ \E p \in Policies(server) : mw = [inner |-> Service(FALSE), policy |-> p]
    /\ pc = [c \in Calls |-> "idle"]
    /\ rf = [c \in Calls |-> NoResponseFuture]
    /\ output = [c \in Calls |-> NoOutput]
    /\ exec = [c \in Calls |-> [n |-> 0, req |-> NoRequest, ready |-> FALSE, open |-> 0]]
    /\ submitted = [c \in Calls |-> NoRequest]
    /\ last = [c \in Calls |-> NoLast]
    /\ decisions = [c \in Calls |-> <<>>]
    /\ probe = NoProbe

\* FollowRedirect::poll_ready
PollReady ==
    /\ ~mw.inner.ready
    /\ mw' = [mw EXCEPT !.inner = Service(TRUE)]
    /\ UNCHANGED <<server, pc, rf, output, exec, submitted, last, decisions, probe>>

\* Faulty variant of FollowRedirect::call: the future works on the policy
\* state left by the call issued before it, not on a copy of the template.
CallFutureShared(self, req) ==
    LET started == {d \in Calls : pc[d] # "idle"}
        policy == IF started = {} THEN self.policy
                  ELSE rf[CHOOSE d \in started : \A e \in started : e <= d].policy
        body == TryCloneFrom(BodyNone, req.body, policy)
        req1 == OnRequest(policy, req)
    IN  MkResponseFuture(MkFuture("Left", "Called", req1), Service(FALSE), policy,
                         req1.method, req1.uri, req1.version, req1.headers, body)

\* Faulty variant of the handle swap: the fresh clone is called and the handle
\* whose poll_ready succeeded stays in the middleware.
CallHandlesClone(self) == [called |-> Service(FALSE), kept |-> self.inner]

\* FollowRedirect::call, the clone and mem::replace: the handle the first
\* request is sent on is the one held so far, the middleware keeps the clone,
\* on which poll_ready has not been called.
CallHandles(self) == [called |-> self.inner, kept |-> Service(FALSE)]

\* ResponseFuture::poll, Oneshot::new(this.service.clone(), req): the Oneshot
\* drives poll_ready of its handle to Ready before it calls it.
OneshotReady(svc) == Service(TRUE)

\* FollowRedirect::call: the ResponseFuture it returns.
CallFuture(self, req) ==
    LET policy == self.policy
        body == TryCloneFrom(BodyNone, req.body, policy)
        req1 == OnRequest(policy, req)
    IN  MkResponseFuture(MkFuture("Left", "Called", req1), Service(FALSE), policy,
                         req1.method, req1.uri, req1.version, req1.headers, body)

\* FollowRedirect::call, after a successful poll_ready.  Calls are numbered in
\* the order they are issued.
Call(c, req) ==
    /\ c \in Callers(server)
    /\ pc[c] = "idle"
    /\ \A d \in Calls : d < c => pc[d] # "idle"
    /\ mw.inner.ready
    /\ rf' = [rf EXCEPT ![c] = CallFuture(mw, req)]
    /\ mw' = [mw EXCEPT !.inner = CallHandles(mw).kept]
    /\ pc' = [pc EXCEPT ![c] = "requesting"]
    /\ exec' = [exec EXCEPT ![c] = [n |-> 1, req |-> rf'[c].future.req,
                                    ready |-> CallHandles(mw).called.ready,
                                    open |-> 1]]
    /\ submitted' = [submitted EXCEPT ![c] = req]
    /\ UNCHANGED <<server, output, last, decisions, probe>>

\* The decisions of a call with the latest one, d.  The record stops at
\* MaxDispatch entries.
Recorded(seq, d) ==
    IF d = "" \/ Len(seq) >= MaxDispatch THEN seq ELSE Append(seq, d)

\* Faulty variant of the Oneshot: every poll sends the request again, also
\* while the previous send is still unanswered.
PollDispatchAgain(c) ==
    /\ pc[c] = "requesting"
    /\ rf' = [rf EXCEPT ![c].future.state = "Called"]
    /\ exec' = [exec EXCEPT ![c] = [n |-> Counted(@.n), req |-> rf[c].future.req,
                                    ready |-> OneshotReady(rf[c].service).ready,
                                    open |-> @.open + 1]]
    /\ UNCHANGED <<server, mw, pc, output, submitted, last, decisions, probe>>

\* ResponseFuture::poll while the Oneshot is NotReady: its service handle
\* becomes ready and is called with the request.
PollDispatch(c) ==
    /\ pc[c] = "requesting"
    /\ rf[c].future.state = "NotReady"
    /\ rf' = [rf EXCEPT ![c].future.state = "Called"]
    /\ exec' = [exec EXCEPT ![c] = [n |-> Counted(@.n), req |-> rf[c].future.req,
                                    ready |-> OneshotReady(rf[c].service).ready,
                                    open |-> @.open + 1]]
    /\ UNCHANGED <<server, mw, pc, output, submitted, last, decisions, probe>>

\* The requests still unanswered once `fut` has yielded its result: a called
\* future was waiting for one answer, a Oneshot that has not called for none.
Answered(fut, open) == IF fut.state = "Called" THEN open - 1 ELSE open

\* Faulty variant of the poll: the policy state is shared by the futures of the
\* middleware, so the state one poll leaves is seen by every other live call.
FinishShared(c, p, res) ==
    /\ rf' = [d \in Calls |->
                CASE d = c          -> p.rf
                  [] pc[d] = "idle" -> rf[d]
                  [] OTHER          -> [rf[d] EXCEPT !.policy = p.rf.policy]]
    /\ output' = [output EXCEPT ![c] = p.output]
    /\ pc' = [pc EXCEPT ![c] = IF p.output.tag = "Pending" THEN "requesting" ELSE "done"]
    /\ last' = [last EXCEPT ![c] =
                  MkLast(exec[c].req, res, rf[c], exec[c].n, p.attempt, p.decision)]
    /\ decisions' = [decisions EXCEPT ![c] = Recorded(@, p.decision)]
    /\ exec' = [exec EXCEPT ![c].open = Answered(rf[c].future, @)]
    /\ UNCHANGED <<server, mw, submitted, probe>>

\* The effect of a poll that got a result from the future in flight.
Finish(c, p, res) ==
    /\ rf' = [rf EXCEPT ![c] = p.rf]
    /\ output' = [output EXCEPT ![c] = p.output]
    /\ pc' = [pc EXCEPT ![c] = IF p.output.tag = "Pending" THEN "requesting" ELSE "done"]
    /\ last' = [last EXCEPT ![c] =
                  MkLast(exec[c].req, res, rf[c], exec[c].n, p.attempt, p.decision)]
    /\ decisions' = [decisions EXCEPT ![c] = Recorded(@, p.decision)]
    /\ exec' = [exec EXCEPT ![c].open = Answered(rf[c].future, @)]
    /\ UNCHANGED <<server, mw, submitted, probe>>

\* ResponseFuture::poll when the wrapped service answers the request in flight.
PollResponse(c) ==
    /\ pc[c] = "requesting"
    /\ rf[c].future.state = "Called"
    /\ \E res \in Responses(server, exec[c].req) : Finish(c, PollOk(rf[c], res), res)

\* ResponseFuture::poll when the wrapped service fails: its future, or the
\* poll_ready of the Oneshot, yields an error.  tests::handle is Infallible.
PollError(c) ==
    /\ pc[c] = "requesting"
    /\ server = "any"
    /\ Finish(c, PollErr(rf[c], "service"), NoResponse)

Next ==
    \/ PollReady
    \/ \E c \in Calls : \E req \in Requests(server) : Call(c, req)
    \/ \E c \in Calls : PollDispatch(c)
    \/ \E c \in Calls : PollResponse(c)
    \/ \E c \in Calls : PollError(c)

Spec == Init /\ [][Next]_vars

\* ------------------------------------------------------------------ Select alone

\* select.rs tests::redirect: the attempt is the same for every decision.
TestAttempt == MkAttempt(200, MkUri("", <<>>), MkUri("", <<>>))

InitSelect ==
    /\ server = "unit"
    /\ \E a \in Leaves, b \in Leaves :
          mw = [inner |-> Service(FALSE), policy |-> Select(a, b)]
    /\ pc = [c \in Calls |-> "idle"]
    /\ rf = [c \in Calls |-> NoResponseFuture]
    /\ output = [c \in Calls |-> NoOutput]
    /\ exec = [c \in Calls |-> [n |-> 0, req |-> NoRequest, ready |-> FALSE, open |-> 0]]
    /\ submitted = [c \in Calls |-> NoRequest]
    /\ last = [c \in Calls |-> NoLast]
    /\ decisions = [c \in Calls |-> <<>>]
    /\ probe = NoProbe

\* select.rs tests::redirect: Policy::redirect(&mut policy, &attempt)
TestRedirect ==
    /\ mw.policy.a.used < MaxProbes
    /\ probe' = [before |-> mw.policy, result |-> Redirect(mw.policy, TestAttempt),
                 clone |-> probe.clone]
    /\ mw' = [mw EXCEPT !.policy = probe'.result.policy]
    /\ UNCHANGED <<server, pc, rf, output, exec, submitted, last, decisions>>

\* Policy::clone_body(&policy, &body) on the Select
TestCloneBody ==
    /\ \E body \in Bodies :
          probe' = [probe EXCEPT !.clone =
                      [policy |-> mw.policy, body |-> body,
                       out |-> SelectCloneBody(mw.policy, body).out,
                       asked |-> SelectCloneBody(mw.policy, body).asked]]
    /\ UNCHANGED <<server, mw, pc, rf, output, exec, submitted, last, decisions>>

NextSelect == TestRedirect \/ TestCloneBody

SpecSelect == InitSelect /\ [][NextSelect]_vars

\* ------------------------------------------------------------------ redirect loop

\* One call under Standard against a service that redirects every URI back to
\* itself.
InitLoop ==
    /\ server = "loop"
    /\ \E p \in Policies(server) : mw = [inner |-> Service(FALSE), policy |-> p]
    /\ pc = [c \in Calls |-> "idle"]
    /\ rf = [c \in Calls |-> NoResponseFuture]
    /\ output = [c \in Calls |-> NoOutput]
    /\ exec = [c \in Calls |-> [n |-> 0, req |-> NoRequest, ready |-> FALSE, open |-> 0]]
    /\ submitted = [c \in Calls |-> NoRequest]
    /\ last = [c \in Calls |-> NoLast]
    /\ decisions = [c \in Calls |-> <<>>]
    /\ probe = NoProbe

\* The service answers every request and never fails.
NextLoop ==
    \/ PollReady
    \/ \E c \in Calls : \E req \in Requests(server) : Call(c, req)
    \/ \E c \in Calls : PollDispatch(c)
    \/ \E c \in Calls : PollResponse(c)

\* The task of a call is polled again after every followed redirect (the future
\* wakes itself before it returns Pending), and the service answers every
\* request it was sent.
SpecLoop ==
    /\ InitLoop
    /\ [][NextLoop]_vars
    /\ \A c \in Calls : WF_vars(PollDispatch(c)) /\ WF_vars(PollResponse(c))

\* ------------------------------------------------------------------ scheduling

\* A middleware configured with a Limited policy.
InitLive == Init /\ mw.policy.kind = "limited"

\* The calls under a fair scheduler: the task of a call is polled again after
\* every followed redirect (the future wakes itself before it returns Pending),
\* and the wrapped service answers every request it was sent.
SpecLive ==
    /\ InitLive
    /\ [][Next]_vars
    /\ \A c \in Calls : WF_vars(PollDispatch(c)) /\ WF_vars(PollResponse(c))

\* ------------------------------------------------------------------ properties

\* The latest poll of call c processed a response of the wrapped service.
Processed(c) == last[c].res # NoResponse

\* The latest poll of call c got an error from the wrapped service.
ServiceFailed(c) == last[c].n > 0 /\ last[c].res = NoResponse

\* The request built by the latest poll of call c, after Action::Follow.
Reissued(c) == rf[c].future.req

\* The latest poll of call c ended the call with the response it processed,
\* without asking the policy and without another request.
ReturnedUntouched(c) ==
    /\ pc[c] = "done"
    /\ output[c] = Ok(last[c].res)
    /\ last[c].decision = ""
    /\ rf[c].policy = last[c].policy
    /\ exec[c].n = last[c].n

\* C1: whenever the policy is asked, Attempt.previous is the URI of the request
\* whose response is being processed, and Attempt.location is the Location
\* header resolved against that URI -- on the first hop and on every later one.
C1_BaseIsPreviousRequest ==
    \A c \in Calls :
        last[c].decision # "" =>
            /\ last[c].attempt.previous = last[c].req.uri
            /\ Some(last[c].attempt.location) =
                   ResolveUri(last[c].res.location, last[c].req.uri)

\* C2: a response whose status is not 301, 302, 303, 307 or 308 ends the call
\* with exactly that response: the policy is not asked and nothing more is
\* dispatched.
C2_NonRedirectReturned ==
    \A c \in Calls :
        (Processed(c) /\ last[c].res.status \notin RedirectStatus) =>
            ReturnedUntouched(c)

\* Witness of C2: a 304 with a resolvable Location, received for a reissued
\* request, ended the call.
C2_Witness ==
    \E c \in Calls :
        /\ Processed(c) /\ last[c].res.status = 304
        /\ last[c].res.location.kind = "abs"
        /\ last[c].n = 2
        /\ pc[c] = "done" /\ output[c] = Ok(last[c].res)

\* C3 as stated: after a followed 301/302, a POST becomes a GET with an empty
\* body, and any other method is kept and the request carries the body of the
\* request the caller submitted.
C3_AsStated ==
    \A c \in Calls :
        (Processed(c) /\ last[c].res.status \in {301, 302}
                      /\ last[c].decision = "Follow") =>
            IF last[c].method = "POST"
            THEN Reissued(c).method = "GET" /\ Reissued(c).body = 0
            ELSE Reissued(c).method = last[c].method
                 /\ Reissued(c).body = submitted[c].body

\* C3 amended: after a followed 301/302, a POST becomes a GET with an empty
\* body; any other method is kept and the request carries the body of the
\* request that was redirected, which on the first hop is the body the caller
\* submitted.
C3_MovedRewrite ==
    \A c \in Calls :
        (Processed(c) /\ last[c].res.status \in {301, 302}
                      /\ last[c].decision = "Follow") =>
            IF last[c].method = "POST"
            THEN Reissued(c).method = "GET" /\ Reissued(c).body = 0
            ELSE /\ Reissued(c).method = last[c].method
                 /\ Reissued(c).body = last[c].req.body
                 /\ last[c].n = 1 => Reissued(c).body = submitted[c].body

\* Witness of C3: a 302 for a HEAD request with a non-empty body was followed
\* and the body was sent again.
C3_Witness ==
    \E c \in Calls :
        /\ Processed(c) /\ last[c].res.status = 302 /\ last[c].decision = "Follow"
        /\ last[c].method = "HEAD"
        /\ Reissued(c).method = "HEAD" /\ Reissued(c).body = 1

\* C4: after a followed 303 the next request is a GET, or a HEAD if the method
\* was HEAD, and its body is empty whatever the stored body was.
C4_SeeOtherRewrite ==
    \A c \in Calls :
        (Processed(c) /\ last[c].res.status = 303 /\ last[c].decision = "Follow") =>
            /\ Reissued(c).method = (IF last[c].method = "HEAD" THEN "HEAD" ELSE "GET")
            /\ Reissued(c).body = 0

\* Witness of C4: a 303 for a HEAD request whose non-empty body could not be
\* cloned (the stored body was exhausted) was followed.
C4_Witness ==
    \E c \in Calls :
        /\ Processed(c) /\ last[c].res.status = 303 /\ last[c].decision = "Follow"
        /\ last[c].method = "HEAD" /\ last[c].body = BodyNone
        /\ last[c].req.body = 1
        /\ Reissued(c).method = "HEAD" /\ Reissued(c).body = 0

\* C5: on a 307/308, a followed redirect repeats the method and the body of the
\* previous request; with the stored body exhausted (the policy could not
\* clone a non-empty body) the call ends with the 307/308 itself, the policy is
\* not asked and nothing is dispatched.
C5_TemporaryRedirect ==
    \A c \in Calls :
        (Processed(c) /\ last[c].res.status \in {307, 308}) =>
            /\ (last[c].body.tag \in {"Some", "Empty"} /\ last[c].decision = "Follow") =>
                    /\ Reissued(c).method = last[c].req.method
                    /\ Reissued(c).body = last[c].req.body
            /\ last[c].body.tag = "None" =>
                    /\ last[c].req.body # 0
                    /\ ReturnedUntouched(c)

\* Witness of C5: a 308 for a POST with a non-empty body that the policy had
\* cloned was followed with the same method and body.
C5_Witness ==
    \E c \in Calls :
        /\ Processed(c) /\ last[c].res.status = 308 /\ last[c].decision = "Follow"
        /\ last[c].body = BodySome(1)
        /\ Reissued(c).method = "POST" /\ Reissued(c).body = 1

\* The i-th decision a Limited policy with n hops gives within one call.
LimitedGrants(n, i) == IF i <= n THEN "Follow" ELSE "Stop"

\* C6: with Limited(n), in every call the first n decisions are Follow and the
\* (n+1)-th is Stop and ends the call, however many hops the calls issued
\* before it through the same middleware have used.
C6_LimitedPerCall ==
    mw.policy.kind = "limited" =>
        \A c \in Calls :
            /\ Len(decisions[c]) <= mw.policy.remaining + 1
            /\ \A i \in 1..Len(decisions[c]) :
                    decisions[c][i] = LimitedGrants(mw.policy.remaining, i)
            /\ Len(decisions[c]) = mw.policy.remaining + 1 =>
                    pc[c] = "done" /\ output[c] = Ok(last[c].res)
            /\ pc[c] # "idle" =>
                    rf[c].policy.remaining + Len(SelectSeq(decisions[c],
                        LAMBDA x : x = "Follow")) = mw.policy.remaining

\* Witness of C6: two calls through a middleware with Limited(1) were both
\* granted one hop and refused the second.
C6_Witness ==
    /\ mw.policy = Limited(1)
    /\ \A c \in Calls : decisions[c] = <<"Follow", "Stop">> /\ pc[c] = "done"

\* The countdown server was asked for /N by call c.
Asked(c) == submitted[c].uri.path[1]

\* The countdown server's answer to GET /n.
Answer(n) == Handle(MkRequest("GET", MkUri("a", <<n>>), "HTTP/1.1", 0, 0))

\* C7: against the countdown server a call for /N ends with the response to /0
\* after N+1 requests under an always-following policy, with the response to
\* /N after one request under an always-stopping policy, and with the response
\* to /(N-k) after k+1 requests under Limited(k), k < N.
C7_Countdown ==
    \A c \in Calls :
        (server = "countdown" /\ pc[c] = "done") =>
            /\ mw.policy.kind = "follow" =>
                    output[c] = Ok(Answer(0)) /\ exec[c].n = Asked(c) + 1
            /\ mw.policy.kind = "stop" =>
                    output[c] = Ok(Answer(Asked(c))) /\ exec[c].n = 1
            /\ (mw.policy.kind = "limited" /\ mw.policy.remaining < Asked(c)) =>
                    /\ output[c] = Ok(Answer(Asked(c) - mw.policy.remaining))
                    /\ output[c].res.status = 301
                    /\ exec[c].n = mw.policy.remaining + 1

\* Witness of C7: a call for /2 under Limited(1) ended with the 301 of /1 after
\* two requests.
C7_Witness ==
    \E c \in Calls :
        /\ server = "countdown" /\ mw.policy = Limited(1) /\ pc[c] = "done"
        /\ Asked(c) = 2 /\ output[c] = Ok(Answer(1)) /\ exec[c].n = 2

\* The outcome of a decision, without the policy's state.
Outcome(d) == <<d.tag, d.action, d.error>>

\* C8: Select(A, B).redirect is Follow, with B untouched, when A follows;
\* otherwise B is asked once and its outcome -- Follow, Stop or its error -- is
\* the outcome of Select, an error of A being dropped.
C8_SelectRedirect ==
    probe.before # NoProbe.before =>
        LET p == probe.before
            r == probe.result
            ra == LeafRedirect(p.a)
            rb == LeafRedirect(p.b)
        IN  /\ r.policy.a = ra.policy
            /\ IF ra.tag = "Ok" /\ ra.action = "Follow"
               THEN Outcome(r) = <<"Ok", "Follow", "">> /\ r.policy.b = p.b
               ELSE /\ Outcome(r) = Outcome(rb)
                    /\ r.policy.b = rb.policy
                    /\ r.policy.b.used = p.b.used + 1
            /\ (r.tag = "Ok" /\ r.action = "Follow") <=>
                    \/ ra.tag = "Ok" /\ ra.action = "Follow"
                    \/ rb.tag = "Ok" /\ rb.action = "Follow"

\* Witness of C8: A failed, B was asked and failed too, and Select gave B's
\* error.
C8_Witness ==
    /\ probe.before # NoProbe.before
    /\ probe.before.a = Fail("EA") /\ probe.before.b.kind = "err"
    /\ Outcome(probe.result) = <<"Err", "", "EB">>
    /\ probe.result.policy.b.used = 1

\* C9: an error of the wrapped service or of policy.redirect ends the call with
\* that error: no response is returned and nothing more is dispatched.
C9_ErrorsAbort ==
    \A c \in Calls :
        /\ ServiceFailed(c) =>
                /\ pc[c] = "done" /\ output[c] = Err("service")
                /\ last[c].decision = "" /\ exec[c].n = last[c].n
        /\ last[c].decision = "Err" =>
                /\ pc[c] = "done"
                /\ output[c] = Err(Redirect(last[c].policy, last[c].attempt).error)
                /\ output[c].res = NoResponse
                /\ exec[c].n = last[c].n
        /\ output[c].tag = "Err" => ServiceFailed(c) \/ last[c].decision = "Err"

\* Witness of C9: the policy failed on the second redirect of a call.
C9_Witness ==
    \E c \in Calls :
        /\ last[c].decision = "Err" /\ last[c].n = 2
        /\ IsRedirection(last[c].res.status)
        /\ pc[c] = "done" /\ output[c] = Err("EB")

\* C10: a redirect response without a Location header, or with one that does
\* not resolve to a URI, ends the call with that response: the policy is not
\* asked (a Limited counter keeps its value) and nothing more is dispatched.
C10_NoLocationReturned ==
    \A c \in Calls :
        (/\ Processed(c) /\ last[c].res.status \in RedirectStatus
         /\ \/ last[c].res.location.kind = "none"
            \/ ~ResolveUri(last[c].res.location, last[c].req.uri).some) =>
            ReturnedUntouched(c)

\* Witness of C10: under Limited(2) a reissued request was answered by a 307
\* without Location; the call ended with one hop left.
C10_Witness ==
    \E c \in Calls :
        /\ Processed(c) /\ last[c].res = MkResponse(307, NoLocation, 0)
        /\ last[c].n = 2 /\ pc[c] = "done" /\ output[c] = Ok(last[c].res)
        /\ mw.policy = Limited(2) /\ rf[c].policy.remaining = 1

\* Requests of call c the wrapped service has got and not yet answered.
InFlight(c) == exec[c].open

\* C11: within one call at most one attempt is in flight at any time.  A request
\* is in flight exactly while the future of the call is a called one; a
\* reissued request is built, and later sent, only once the response of the
\* previous attempt has been processed, and it takes the place of that attempt.
C11_OneAttemptInFlight ==
    \A c \in Calls :
        /\ InFlight(c) \in {0, 1}
        /\ InFlight(c) = 1 <=> (pc[c] = "requesting" /\ rf[c].future.state = "Called")
        /\ (pc[c] = "requesting" /\ rf[c].future.state = "NotReady") =>
                /\ Processed(c) /\ last[c].decision = "Follow"
                /\ exec[c].req = last[c].req
                /\ Reissued(c) # NoRequest
        /\ (pc[c] = "requesting" /\ rf[c].future.state = "Called") =>
                exec[c].req = rf[c].future.req

\* C11 witness: the second request of a call is in flight, after the response
\* to the first was processed.
C11_Witness ==
    \E c \in Calls :
        /\ exec[c].n = 2 /\ last[c].n = 1 /\ Processed(c)
        /\ rf[c].future = MkFuture("Right", "Called", exec[c].req)
        /\ exec[c].req # last[c].req

\* C12: every request is sent on a service handle whose poll_ready succeeded
\* since that handle was last called.  The first request of a call goes to the
\* handle the caller polled ready, and the middleware is left with the fresh
\* clone, not yet polled; a reissued request goes to a handle the Oneshot has
\* polled ready.
C12_DispatchOnReadyHandle ==
    [][\A c \in Calls :
          exec'[c].open > exec[c].open =>
              /\ exec'[c].n = Counted(exec[c].n)
              /\ exec'[c].ready
              /\ pc[c] = "idle" => (mw.inner.ready /\ ~mw'.inner.ready)
              /\ pc[c] # "idle" => (rf[c].future.kind = "Right" /\ mw' = mw)]_vars

\* C12 witness: a reissued request was sent on a ready handle while the
\* middleware holds a handle that has not been polled since the call.
C12_Witness ==
    \E c \in Calls :
        /\ exec[c].n = 2 /\ exec[c].ready /\ rf[c].future.state = "Called"
        /\ ~mw.inner.ready

\* A call for `req` that runs alone through a middleware `self` in front of
\* tests::handle, once k responses have been processed: its ResponseFuture, the
\* decisions of its policy, and the requests it has sent or is about to send.
RECURSIVE AloneRun(_, _, _)
AloneRun(self, req, k) ==
    IF k = 0
    THEN [rf |-> CallFuture(self, req), decisions |-> <<>>, n |-> 1]
    ELSE LET r == AloneRun(self, req, k - 1)
             p == PollOk(r.rf, Handle(r.rf.future.req))
         IN  [rf |-> p.rf,
              decisions |-> IF p.decision = "" THEN r.decisions
                            ELSE Append(r.decisions, p.decision),
              n |-> IF p.output = NoOutput THEN r.n + 1 ELSE r.n]

\* The fields of a ResponseFuture, whether or not its Oneshot has called yet.
Snapshot(f) == [f EXCEPT !.future.state = "Called"]

\* The requests call c has sent, counting the one its future is about to send.
Sending(c) ==
    exec[c].n + (IF pc[c] = "requesting" /\ rf[c].future.state = "NotReady" THEN 1 ELSE 0)

\* C13: two calls through the same middleware are isolated.  Under every
\* interleaving the policy state, stored body, method, URI and next request of
\* each call, the decisions it was granted and the number of requests it sent
\* are those of the same call running alone.
C13_CallsIsolated ==
    server \in {"countdown", "handle"} =>
        \A c \in Calls :
            pc[c] # "idle" =>
                LET a == AloneRun(mw, submitted[c], last[c].n)
                IN  /\ Snapshot(rf[c]) = Snapshot(a.rf)
                    /\ decisions[c] = a.decisions
                    /\ Sending(c) = a.n

\* C13 witness: against tests::handle, under Limited(1), one call, a POST that
\* became a GET, was stopped at its second redirect while the other, started
\* before that, has just been granted its first follow and still carries its
\* own method and body.
C13_Witness ==
    /\ server = "handle" /\ mw.policy = Limited(1)
    /\ pc[1] = "done" /\ decisions[1] = <<"Follow", "Stop">>
    /\ pc[2] = "requesting" /\ decisions[2] = <<"Follow">>
    /\ rf[2].policy.remaining = 0 /\ rf[1].policy.remaining = 0
    /\ submitted[1].method = "POST" /\ rf[1].method = "GET"
    /\ submitted[2].method = "HEAD" /\ rf[2].method = "HEAD"
    /\ submitted[2].body = 0 /\ rf[2].body = BodySome(0)

\* Call c runs against the looping service with a request whose URI is absolute
\* and for which a body is at hand at every hop: the caller's body is empty, or
\* a rewrite has made the stored body the known-empty one.
Looping(c) ==
    /\ server = "loop" /\ pc[c] # "idle"
    /\ submitted[c].uri.host # ""
    /\ submitted[c].body = 0 \/ rf[c].body = BodyEmpty

\* C14 as stated: under Standard, against a service that redirects every URI
\* back to itself, no call reaches the completed state.
C14_AsStated ==
    \A c \in Calls : (server = "loop" /\ mw.policy = Standard) => pc[c] # "done"

\* C14: under Standard, against a service that redirects every URI back to
\* itself, a call whose URI is absolute and whose body is empty or has been
\* emptied by a rewrite never completes: again and again it builds the next
\* request and sends it.
C14_LoopNeverCompletes ==
    /\ [](\A c \in Calls : Looping(c) => pc[c] = "requesting")
    /\ \A c \in Calls : [](Looping(c) => <>(rf[c].future.state = "NotReady"))
    /\ \A c \in Calls : [](Looping(c) => <>(rf[c].future = MkFuture("Right", "Called", exec[c].req)))

\* C14 witness: a call with an empty body has sent MaxDispatch requests to the
\* URI that redirects to itself and is waiting for the next response.
C14_Witness ==
    \E c \in Calls :
        /\ Looping(c) /\ mw.policy = Standard /\ submitted[c].body = 0
        /\ exec[c].n = MaxDispatch /\ last[c].n = MaxDispatch
        /\ rf[c].future.state = "Called" /\ exec[c].req.uri = submitted[c].uri

\* How often Policy::redirect of p was called: the count kept by its first leaf.
Used(p) == IF p.kind = "select" THEN p.a.used ELSE p.used

\* C15: policy.redirect is called at most once per response received, and only
\* for a response with a redirect status, after the stored body (as the status
\* rewrite left it) has yielded a body for the next request and the Location
\* header has been resolved; it is not called when the stored body is exhausted.
C15_RedirectAskedOnce ==
    \A c \in Calls :
        /\ Len(decisions[c]) = Used(rf[c].policy) /\ Len(decisions[c]) <= last[c].n
        /\ (last[c].n > 0 /\ last[c].decision = "") => rf[c].policy = last[c].policy
        /\ last[c].decision # "" =>
              LET rw == Rewrite(last[c].method, last[c].body, last[c].res.status)
              IN  /\ Processed(c) /\ last[c].res.status \in RedirectStatus
                  /\ rw.body.tag # "None"
                  /\ last[c].res.location.kind # "none"
                  /\ ResolveUri(last[c].res.location, last[c].uri)
                        = Some(last[c].attempt.location)
                  /\ Used(rf[c].policy) = Counted(Used(last[c].policy))

\* C15 witness: the caller's body could not be cloned, a 303 made the stored
\* body the known-empty one, and the policy was asked and said Follow.
C15_Witness ==
    \E c \in Calls :
        /\ Processed(c) /\ last[c].res.status = 303 /\ last[c].body = BodyNone
        /\ submitted[c].body = 1 /\ last[c].decision = "Follow"
        /\ Used(rf[c].policy) = 1 /\ Reissued(c).body = 0

\* The headers of `req` once on_request of policy p has been applied k times.
RECURSIVE Stamped(_, _, _)
Stamped(p, req, k) == IF k = 0 THEN req.headers ELSE OnRequest(p, [req EXCEPT !.headers = Stamped(p, req, k - 1)]).headers

\* C16 as stated: every reissued request carries the headers the caller
\* submitted with on_request applied to them once.
C16_AsStated ==
    \A c \in Calls :
        (Processed(c) /\ last[c].decision = "Follow") =>
            Reissued(c).headers = Stamped(rf[c].policy, submitted[c], 1)

\* C16: the headers snapshot of a call is taken from the caller's request after
\* on_request has been applied to it, and stays as it is; every reissued request
\* starts from a copy of that snapshot, to which on_request is applied once
\* more.  So a reissued request carries the effect of on_request on the first
\* attempt and on itself, and of no attempt in between.
C16_HeadersFromSnapshot ==
    \A c \in Calls :
        pc[c] # "idle" =>
            /\ rf[c].headers = Stamped(mw.policy, submitted[c], 1)
            /\ (Processed(c) /\ last[c].decision = "Follow") =>
                    Reissued(c).headers = Stamped(rf[c].policy, submitted[c], 2)

\* C16 witness: under the header-adding policy the third request of a call
\* carries two added headers, as the second did.
C16_Witness ==
    \E c \in Calls :
        /\ mw.policy = Custom /\ Processed(c) /\ last[c].decision = "Follow"
        /\ last[c].n = 2 /\ last[c].req.headers = 2
        /\ Reissued(c).headers = 2 /\ submitted[c].headers = 0

\* The stored body after an exhausted BodyRepr is replenished from `body`
\* under policy p: a body of size zero is stored as it is, whatever the policy;
\* any other body is stored if the policy clones it.
Replenished(p, body) ==
    CASE body = 0                      -> BodySome(0)
      [] PolicyCloneBody(p, body).some -> BodySome(body)
      [] OTHER                         -> BodyNone

\* C17: at the start of a call, and after every Follow, the stored body is
\* replenished from the body at hand: a body of size zero is stored without
\* regard to the policy, any other body becomes the stored copy if the policy
\* clones it and leaves the store exhausted if not (a known-empty store stays
\* as it is).  So a body of size zero is at hand at every hop, also under a
\* policy that cannot clone.
C17_BodyReplenished ==
    \A c \in Calls :
        /\ (pc[c] # "idle" /\ last[c].n = 0) =>
                rf[c].body = Replenished(mw.policy, submitted[c].body)
        /\ (Processed(c) /\ last[c].decision = "Follow") =>
                rf[c].body =
                    IF Rewrite(last[c].method, last[c].body, last[c].res.status).body
                            = BodyEmpty
                    THEN BodyEmpty
                    ELSE Replenished(rf[c].policy, Reissued(c).body)
        /\ (pc[c] = "requesting" /\ submitted[c].body = 0) =>
                rf[c].body \in {BodySome(0), BodyEmpty}

\* C17 witness: under Limited, which cannot clone, a request with a body of size
\* zero was redirected twice with 307 and the body is still stored.
C17_Witness ==
    \E c \in Calls :
        /\ mw.policy = Limited(2) /\ submitted[c].body = 0 /\ submitted[c].method = "POST"
        /\ Processed(c) /\ last[c].n = 2 /\ last[c].res.status = 307
        /\ last[c].req.method = "POST" /\ last[c].decision = "Follow"
        /\ rf[c].body = BodySome(0) /\ Reissued(c).body = 0

\* C18: under Limited(n), when the task of a call is scheduled fairly and the
\* wrapped service answers every request, every call that was started
\* completes, and it has sent at most n + 1 requests, whatever redirects the
\* service answers with.
C18_LimitedTerminates ==
    /\ [](\A c \in Calls :
            mw.policy.kind = "limited" => exec[c].n <= mw.policy.remaining + 1)
    /\ \A c \in Calls :
            [](mw.policy.kind = "limited" /\ pc[c] = "requesting" => <>(pc[c] = "done"))

\* C18 witness: under Limited(2) a call whose every request was redirected back
\* to the same URI completed with the third redirect, after three requests.
C18_Witness ==
    \E c \in Calls :
        /\ mw.policy = Limited(2) /\ pc[c] = "done" /\ exec[c].n = 3
        /\ decisions[c] = <<"Follow", "Follow", "Stop">>
        /\ last[c].req.uri = submitted[c].uri /\ last[c].attempt.location = submitted[c].uri
        /\ output[c] = Ok(last[c].res) /\ last[c].res.status = 307

\* The latest poll of call c processed a response that drops the body: a 303,
\* or a 301 or 302 while the method was POST.
BodyDropped(c) ==
    /\ Processed(c)
    /\ \/ last[c].res.status = 303
       \/ last[c].res.status \in {301, 302} /\ last[c].method = "POST"

\* C19: the known-empty body is absorbing within a call.  A 303, or a 301/302
\* of a POST, leaves the stored body known-empty; from then on every poll
\* leaves it known-empty, every request built carries an empty body, and a
\* redirect response is returned only because the policy did not say Follow
\* or because its Location could not be resolved, never for lack of a body.
C19_EmptyAbsorbing ==
    /\ [](\A c \in Calls : BodyDropped(c) => rf[c].body = BodyEmpty)
    /\ [][\A c \in Calls :
            (pc[c] = "requesting" /\ rf[c].body = BodyEmpty) =>
                /\ rf'[c].body = BodyEmpty
                /\ rf'[c].future.req # rf[c].future.req => rf'[c].future.req.body = 0
                /\ (pc'[c] = "done" /\ output'[c].tag = "Ok"
                        /\ output'[c].res.status \in RedirectStatus) =>
                      \/ last'[c].decision = "Stop"
                      \/ ~Location(output'[c].res, rf[c].uri).some]_vars

\* C19 witness: the caller's body was not empty, the stored body is known-empty,
\* and a 307 processed in that state was followed with an empty body.
C19_Witness ==
    \E c \in Calls :
        /\ submitted[c].body = 1 /\ Processed(c) /\ last[c].body = BodyEmpty
        /\ last[c].res.status = 307 /\ last[c].decision = "Follow"
        /\ rf[c].body = BodyEmpty /\ Reissued(c).body = 0

\* C20: Select(A, B).clone_body returns the clone of A whenever A produces one,
\* and then B.clone_body is not called; it calls B.clone_body, and returns what
\* B returns, only when A returns none; it returns none exactly when both do.
C20_SelectCloneBody ==
    probe.clone # NoClone =>
        LET p == probe.clone.policy
            a == PolicyCloneBody(p.a, probe.clone.body)
            b == PolicyCloneBody(p.b, probe.clone.body)
        IN  /\ a.some => (probe.clone.out = a /\ probe.clone.asked = <<"a">>)
            /\ ~a.some => (probe.clone.out = b /\ probe.clone.asked = <<"a", "b">>)
            /\ ~probe.clone.out.some <=> (~a.some /\ ~b.some)
            /\ PolicyCloneBody(p, probe.clone.body) = probe.clone.out

\* C20 witness: both policies can clone, the clone of the first was returned
\* and the second was not asked.
C20_Witness ==
    /\ probe.clone # NoClone
    /\ probe.clone.policy.a.kind = "custom" /\ probe.clone.policy.b.kind = "custom"
    /\ probe.clone.body = 1 /\ probe.clone.out = Some(1)
    /\ probe.clone.asked = <<"a">>

====
